---------------------------- MODULE Spec2Model ----------------------------
(***************************************************************************)
(* A model of the catalog routines of gen_tso:                             *)
(*   catalogs/catalog_utils.py  normalize_name, is_letter, invert_aliases  *)
(*   catalogs/catalogs.py       Catalog.__init__, load_aliases             *)
(*   catalogs/fetch_catalogs.py rank_planets, solve_*, complete_entry and  *)
(*                              the merge loop of                          *)
(*                              fetch_nea_confirmed_targets                *)
(*                                                                         *)
(* Python strings are sequences of one-character strings, so that slicing, *)
(* str.replace, str.find and indexing are computed as Python computes      *)
(* them.  A Python exception is a value: every routine that can raise      *)
(* returns a record [exc |-> <exception name or "none">, val |-> <value>]. *)
(* A Python dict is a sequence of <<key, value>> pairs in insertion order. *)
(***************************************************************************)
EXTENDS Integers, Sequences, FiniteSets, TLC

VARIABLES
    \* normalize_name: the raw name, and the results of normalize_name(target)
    \* and of normalize_name(normalize_name(target))
    target, once, twice,
    \* load_aliases: the lines of nea_aliases.txt, the as_hosts flag, the result
    lines, as_hosts, aliases,
    \* Catalog.__init__
    cat,
    \* fetch_nea_confirmed_targets: the rows of the response that carry one
    \* planet name, as fetched (fetched) and as they are now (resp), the
    \* merged record planets[i] (planets_i), what rank_planets returned (rank)
    fetched, resp, planets_i, rank,
    \* complete_entry on one entry: the entry before and after
    entry, completed,
    \* is_letter: the name and the result
    letter_name, letter_ret,
    \* curate_aliases: the dict kept_aliases {alias: name}
    kept_aliases,
    \* load_targets: the lines of the database file, the result
    database, targets,
    \* get_trexolists_targets: the rows of trexolists.csv, the clusters of
    \* the scan
    trexolist_data, clusters,
    \* solve_period_sma, solve_rp_rs, solve_a_rs: the arguments, the result
    triple, solved,
    \* select_alias: the arguments aka, catalogs and default_name, the result
    alias_list, catalog_names, default_name, selected,
    \* invert_aliases: the result (the argument is kept_aliases)
    inverted,
    \* fetch_nea_tess_candidates: the rows of the TOI response, the planets
    \* and hosts of load_targets_table, the dict of nea_aliases.pickle, the
    \* dict that is saved
    tess_resp, nea_table, nea_pickle, candidates,
    \* fetch_nea_confirmed_targets, 'Save as plain text': the merged records
    \* and the lines written to nea_data.txt
    merged, nea_text,
    \* which routine runs, and how far it is
    pc

letterVars == <<letter_name, letter_ret>>
curateVars == <<kept_aliases>>
targetsVars == <<database, targets>>
trexoVars == <<trexolist_data, clusters>>
solveVars == <<triple, solved>>
selectVars == <<alias_list, catalog_names, default_name, selected>>
invertVars == <<inverted>>
tessVars == <<tess_resp, nea_table, nea_pickle, candidates>>
saveVars == <<merged, nea_text>>
restVars == <<selectVars, invertVars, tessVars, saveVars>>

\* the variables of the routines above whose actions come last in this module
utilVars == <<letterVars, curateVars, targetsVars, trexoVars, solveVars, restVars>>

\* the variables of the routines whose actions come first
mainVars == <<target, once, twice, lines, as_hosts, aliases, cat,
              fetched, resp, planets_i, rank, entry, completed>>

vars == <<mainVars, utilVars, pc>>

---------------------------------------------------------------------------
(* Python str and list primitives on sequences *)

Ok(v) == [exc |-> "none", val |-> v]
Raise(e) == [exc |-> e, val |-> <<>>]

Upper == {"A","B","C","D","E","F","G","H","I","J","K","L","M","N","O","P",
          "Q","R","S","T","U","V","W","X","Y","Z"}
Lower == {"a","b","c","d","e","f","g","h","i","j","k","l","m","n","o","p",
          "q","r","s","t","u","v","w","x","y","z"}
White == {" ", "\t", "\n"}

isalpha(c) == c \in Upper \cup Lower
islower(c) == c \in Lower
isspace(c) == c \in White

\* s[i:] and s[:i] for 0 <= i
From(s, i) == SubSeq(s, i + 1, Len(s))
Upto(s, i) == SubSeq(s, 1, i)

startswith(s, p) == Len(s) >= Len(p) /\ SubSeq(s, 1, Len(p)) = p
endswith(s, p) == Len(s) >= Len(p) /\ SubSeq(s, Len(s) - Len(p) + 1, Len(s)) = p

\* s.find(p, start): the lowest 0-based index >= start where p occurs, or -1
find(s, p, start) ==
    LET hits == {i \in start .. (Len(s) - Len(p)) : SubSeq(s, i + 1, i + Len(p)) = p}
    IN  IF hits = {} THEN -1 ELSE CHOOSE i \in hits : \A j \in hits : i <= j

\* p in s
contains(s, p) == find(s, p, 0) >= 0

\* s.replace(old, new), old not empty: every non-overlapping occurrence, left to right
RECURSIVE replace(_, _, _)
replace(s, old, new) ==
    LET i == find(s, old, 0)
    IN  IF i < 0 THEN s
        ELSE Upto(s, i) \o new \o replace(From(s, i + Len(old)), old, new)

\* re.sub(r'\s+', ' ', s): every run of white space becomes one blank
RECURSIVE collapse_spaces(_)
collapse_spaces(s) ==
    IF s = <<>> THEN <<>>
    ELSE IF isspace(Head(s))
         THEN IF Len(s) > 1 /\ isspace(s[2])
              THEN collapse_spaces(Tail(s))
              ELSE <<" ">> \o collapse_spaces(Tail(s))
         ELSE <<Head(s)>> \o collapse_spaces(Tail(s))

---------------------------------------------------------------------------
(* catalog_utils.normalize_name *)

case_fixes == <<
    << <<"K","E","P","L","E","R">>, <<"K","e","p","l","e","r">> >>,
    << <<"T","R","E","S">>,         <<"T","r","E","S">> >>,
    << <<"W","O","L","F","-">>,     <<"W","o","l","f"," ">> >>,
    << <<"H","A","T","P">>,         <<"H","A","T","-","P","-">> >>,
    << <<"A","U","-","M","I","C">>, <<"A","U"," ","M","i","c">> >>,
    << <<"G","L">>,                 <<"G","J">> >> >>

prefixes == <<
    <<"L">>, <<"G">>, <<"H","D">>, <<"G","J">>, <<"L","T","T">>, <<"L","H","S">>,
    <<"H","I","P">>, <<"W","D">>, <<"L","P">>, <<"2","M","A","S","S">>,
    <<"P","S","R">> >>

sign_prefixes == << <<"C","D","-">>, <<"B","D","-">>, <<"B","D","+">> >>

RECURSIVE apply_case_fixes(_, _)
apply_case_fixes(name, k) ==
    IF k > Len(case_fixes) THEN name
    ELSE apply_case_fixes(replace(name, case_fixes[k][1], case_fixes[k][2]), k + 1)

\* one turn of the loop over prefixes; name[prefix_len] raises IndexError
\* when the name is the prefix itself
prefix_step(name, prefix) ==
    LET n == Len(prefix) IN
    IF ~startswith(name, prefix) THEN Ok(name)
    ELSE IF Len(name) <= n THEN Raise("IndexError")
    ELSE IF isalpha(name[n + 1]) THEN Ok(name)
    ELSE LET dashed == replace(name, prefix \o <<"-">>, prefix \o <<" ">>)
         IN  IF dashed[n + 1] # " "
             THEN Ok(prefix \o <<" ">> \o From(dashed, n))
             ELSE Ok(dashed)

RECURSIVE apply_prefixes(_, _)
apply_prefixes(r, k) ==
    IF r.exc # "none" \/ k > Len(prefixes) THEN r
    ELSE apply_prefixes(prefix_step(r.val, prefixes[k]), k + 1)

sign_step(name, prefix) ==
    LET dash_loc == find(name, <<"-">>, Len(prefix))
    IN  IF startswith(name, prefix) /\ dash_loc > 0
        THEN Upto(name, dash_loc) \o <<" ">> \o From(name, dash_loc + 1)
        ELSE name

RECURSIVE apply_sign_prefixes(_, _)
apply_sign_prefixes(name, k) ==
    IF k > Len(sign_prefixes) THEN name
    ELSE apply_sign_prefixes(sign_step(name, sign_prefixes[k]), k + 1)

\* 'Main star': name[-2] raises IndexError when the name is 'A'
main_star(name) ==
    IF ~endswith(name, <<"A">>) THEN Ok(name)
    ELSE IF Len(name) < 2 THEN Raise("IndexError")
    ELSE IF ~isspace(name[Len(name) - 1])
         THEN Ok(Upto(name, Len(name) - 1) \o <<" ","A">>)
         ELSE Ok(name)

custom_corrections(name) ==
    LET n1 == IF name \in { <<"5","5","C","N","C">>,
                            <<"R","H","O","0","1","-","C","N","C">> }
              THEN <<"5","5"," ","C","n","c">> ELSE name
        n2 == replace(n1, <<"-","o","f","f","s","e","t">>, <<>>)
        n3 == replace(n2, <<"-","u","p","d","a","t","e","d">>, <<>>)
        n4 == IF endswith(n3, <<"-">>) THEN Upto(n3, Len(n3) - 1) ELSE n3
        n5 == IF n4 = <<"W","D"," ","1","8","5","6">>
              THEN <<"W","D"," ","1","8","5","6","+","5","3","4">> ELSE n4
    IN  IF contains(n5, <<"V","1","2","9","8">>)
        THEN <<"V","1","2","9","8"," ","T","a","u">> ELSE n5

normalize_name(t) ==
    LET cased == apply_case_fixes(collapse_spaces(t), 1)
        pre   == apply_prefixes(Ok(cased), 1)
        star  == IF pre.exc # "none" THEN pre
                 ELSE main_star(apply_sign_prefixes(pre.val, 1))
    IN  IF star.exc # "none" THEN star ELSE Ok(custom_corrections(star.val))

---------------------------------------------------------------------------
(* catalog_utils.is_letter, invert_aliases; catalogs.load_aliases *)

\* name[-1].islower() and name[-2] == ' ': name[-1] raises IndexError on the
\* empty name, name[-2] on a one-character name whose character is lower case
is_letter(name) ==
    IF Len(name) = 0 THEN Raise("IndexError")
    ELSE IF ~islower(name[Len(name)]) THEN Ok(FALSE)
    ELSE IF Len(name) < 2 THEN Raise("IndexError")
    ELSE Ok(name[Len(name) - 1] = " ")

\* s.rindex(c): the highest 0-based index of character c, or -1 (ValueError)
rindex(s, c) ==
    LET hits == {i \in 1 .. Len(s) : s[i] = c}
    IN  IF hits = {} THEN -1 ELSE (CHOOSE i \in hits : \A j \in hits : j <= i) - 1

\* the local function parse of load_aliases
parse(name, hosts) ==
    IF ~hosts THEN Ok(name)
    ELSE LET letter == is_letter(name) IN
         IF letter.exc # "none" THEN letter
         ELSE IF letter.val THEN Ok(Upto(name, Len(name) - 2))
         ELSE IF rindex(name, ".") < 0 THEN Raise("ValueError")
         ELSE Ok(Upto(name, rindex(name, ".")))

\* s.strip()
RECURSIVE lstrip(_)
lstrip(s) == IF s # <<>> /\ isspace(Head(s)) THEN lstrip(Tail(s)) ELSE s
RECURSIVE rstrip(_)
rstrip(s) == IF s # <<>> /\ isspace(s[Len(s)]) THEN rstrip(Upto(s, Len(s) - 1)) ELSE s
strip(s) == rstrip(lstrip(s))

\* s.split(c)
RECURSIVE split(_, _)
split(s, c) ==
    LET i == find(s, <<c>>, 0)
    IN  IF i < 0 THEN <<s>> ELSE <<Upto(s, i)>> \o split(From(s, i + 1), c)

\* dict: key in d, d[key], d[key] = value
Keys(d) == {d[i][1] : i \in 1 .. Len(d)}
Values(d) == {d[i][2] : i \in 1 .. Len(d)}
Get(d, key) == d[CHOOSE i \in 1 .. Len(d) : d[i][1] = key][2]
Put(d, key, value) ==
    IF key \in Keys(d)
    THEN [i \in 1 .. Len(d) |-> IF d[i][1] = key THEN <<key, value>> ELSE d[i]]
    ELSE Append(d, <<key, value>>)

\* the loop over the aliases of one line without the test 'parse(alias) != name'
RECURSIVE add_aliases_unchecked(_, _, _, _)
add_aliases_unchecked(r, name, names, hosts) ==
    IF r.exc # "none" \/ names = <<>> THEN r
    ELSE LET alias == parse(Head(names), hosts) IN
         IF alias.exc # "none" THEN alias
         ELSE add_aliases_unchecked(Ok(Put(r.val, alias.val, name)),
                                    name, Tail(names), hosts)

\* the loop over the aliases of one line; r is the dict so far (or what was raised)
RECURSIVE add_aliases(_, _, _, _)
add_aliases(r, name, names, hosts) ==
    IF r.exc # "none" \/ names = <<>> THEN r
    ELSE LET alias == parse(Head(names), hosts) IN
         IF alias.exc # "none" THEN alias
         ELSE add_aliases(
                  IF alias.val # name THEN Ok(Put(r.val, alias.val, name)) ELSE r,
                  name, Tail(names), hosts)

\* one turn of the loop over the lines; line.index(':') raises ValueError
read_line(r, line, hosts) ==
    LET loc == find(line, <<":">>, 0) IN
    IF loc < 0 THEN Raise("ValueError")
    ELSE LET name == parse(Upto(line, loc), hosts) IN
         IF name.exc # "none" THEN name
         ELSE add_aliases(r, name.val, split(strip(From(line, loc + 1)), ","), hosts)

RECURSIVE read_lines(_, _, _)
read_lines(r, ls, hosts) ==
    IF r.exc # "none" \/ ls = <<>> THEN r
    ELSE read_lines(read_line(r, Head(ls), hosts), Tail(ls), hosts)

load_aliases(ls, hosts) == read_lines(Ok(<<>>), ls, hosts)

\* {alias: name} to {name: [alias]} with the last alias of a name only
RECURSIVE invert_last_alias(_)
invert_last_alias(d) ==
    IF d = <<>> THEN <<>>
    ELSE Put(invert_last_alias(Upto(d, Len(d) - 1)), d[Len(d)][2], <<d[Len(d)][1]>>)

\* {alias: name} to the dict {name: [aliases]}
RECURSIVE invert_aliases(_)
invert_aliases(d) ==
    IF d = <<>> THEN <<>>
    ELSE LET aka == invert_aliases(Upto(d, Len(d) - 1))
             key == d[Len(d)][1]
             val == d[Len(d)][2]
         IN  IF val \in Keys(aka)
             THEN Put(aka, val, Append(Get(aka, val), key))
             ELSE Put(aka, val, <<key>>)

---------------------------------------------------------------------------
(* catalogs.Catalog.__init__ *)

None == <<>>

Range(s) == {s[i] : i \in 1 .. Len(s)}

\* list.index(x), 1-based, for x in the list
index(s, x) == CHOOSE i \in 1 .. Len(s) : s[i] = x /\ \A j \in 1 .. (i - 1) : s[j] # x

\* the last host of the list that is in hosts, or name when there is none:
\* 'for host in hosts_aka[...]: if host in self.hosts: jwst_targets[i] = host'
RECURSIVE last_known(_, _, _)
last_known(akas, hosts, name) ==
    IF akas = <<>> THEN name
    ELSE last_known(Tail(akas), hosts,
                    IF Head(akas) \in hosts THEN Head(akas) ELSE name)

\* the body of 'for i in range(njwst)': hosts_aka[...] raises KeyError for a
\* name that is no value of host_aliases
resolve_host(jwst_target, host_aliases, hosts_aka, hosts) ==
    LET renamed == IF jwst_target \in Keys(host_aliases)
                   THEN Get(host_aliases, jwst_target) ELSE jwst_target
    IN  IF renamed \in hosts THEN Ok(renamed)
        ELSE IF renamed \notin Keys(hosts_aka) THEN Raise("KeyError")
        ELSE Ok(last_known(Get(hosts_aka, renamed), hosts, renamed))

RECURSIVE resolve_hosts(_, _, _, _)
resolve_hosts(jwst_targets, host_aliases, hosts_aka, hosts) ==
    IF jwst_targets = <<>> THEN Ok(<<>>)
    ELSE LET first == resolve_host(Head(jwst_targets), host_aliases, hosts_aka, hosts)
             rest  == resolve_hosts(Tail(jwst_targets), host_aliases, hosts_aka, hosts)
         IN  IF first.exc # "none" THEN first
             ELSE IF rest.exc # "none" THEN rest
             ELSE Ok(<<first.val>> \o rest.val)

is_transiting_flag(c, i) == c.tr_dur[i] # None

is_confirmed_flag(c, i) == c.planets[i] \notin Range(c.tess_planets)

is_jwst_host_only(c, i) == c.hosts[i] \in Range(c.jwst_targets)

is_jwst_flag(c, i) == c.hosts[i] \in Range(c.jwst_targets) /\ is_transiting_flag(c, i)

\* self.trexo_coords[i]: set past 'if target not in planets_aka: continue'
trexo_coord(c, planets_aka, i) ==
    IF c.planets[i] \in Keys(planets_aka) /\ is_jwst_flag(c, i)
    THEN c.trexo[index(c.jwst_targets, c.hosts[i])]
    ELSE None

\* the aliases of the planets 1..n that are in planets_aka and have keep[i]
RECURSIVE alias_bucket(_, _, _, _)
alias_bucket(c, planets_aka, keep, n) ==
    IF n = 0 THEN <<>>
    ELSE alias_bucket(c, planets_aka, keep, n - 1) \o
         (IF c.planets[n] \in Keys(planets_aka) /\ keep[n]
          THEN Get(planets_aka, c.planets[n]) ELSE <<>>)

---------------------------------------------------------------------------
(* fetch_catalogs: rank_planets, solve_*, complete_entry and the merge loop *)
(*                                                                          *)
(* A number is a tuple: <<k>> is the number k as it came from the archive,  *)
(* <<formula, x, y>> is the number the named formula computes from x and y, *)
(* None is <<>>.  Two numbers are equal when they were reached the same way. *)

Fields == { "default_flag", "sy_kmag", "sy_pnum", "ra", "dec",
            "st_teff", "st_logg", "st_met", "st_rad", "st_mass", "st_age",
            "pl_trandur", "pl_orbper", "pl_orbsmax", "pl_rade", "pl_masse",
            "pl_ratdor", "pl_ratror" }

\* x == 0, for a number x
RECURSIVE is_zero(_)
is_zero(x) ==
    IF Len(x) = 1 THEN x[1] = 0
    ELSE IF x[1] \in { "rprs*rs", "ars*rs" } THEN is_zero(x[2]) \/ is_zero(x[3])
    ELSE is_zero(x[2])

\* kepler's law for the period only: the branch for sma is missing
solve_period_only(period, sma, mstar) ==
    IF mstar = None \/ is_zero(mstar) THEN <<period, sma>>
    ELSE IF period = None /\ sma # None THEN << <<"kepler_period", sma, mstar>>, sma >>
    ELSE <<period, sma>>

solve_period_sma(period, sma, mstar) ==
    IF mstar = None \/ is_zero(mstar) THEN <<period, sma>>
    ELSE IF period = None /\ sma # None THEN << <<"kepler_period", sma, mstar>>, sma >>
    ELSE IF sma = None /\ period # None THEN << period, <<"kepler_sma", period, mstar>> >>
    ELSE <<period, sma>>

\* solve_rp_rs with the ratio computed whenever both radii are known
solve_rp_rs_anew(rp, rs, rprs) ==
    IF rp = None /\ rs # None /\ rprs # None THEN Ok(<< <<"rprs*rs", rprs, rs>>, rs, rprs >>)
    ELSE IF rs = None /\ rp # None /\ rprs # None
         THEN IF is_zero(rprs) THEN Raise("ZeroDivisionError")
              ELSE Ok(<< rp, <<"rp/rprs", rp, rprs>>, rprs >>)
    ELSE IF rp # None /\ rs # None
         THEN IF is_zero(rs) THEN Raise("ZeroDivisionError")
              ELSE Ok(<< rp, rs, <<"rp/rs", rp, rs>> >>)
    ELSE Ok(<<rp, rs, rprs>>)

\* rp / rprs and rp / rs raise ZeroDivisionError on a zero divisor
solve_rp_rs(rp, rs, rprs) ==
    IF rp = None /\ rs # None /\ rprs # None THEN Ok(<< <<"rprs*rs", rprs, rs>>, rs, rprs >>)
    ELSE IF rs = None /\ rp # None /\ rprs # None
         THEN IF is_zero(rprs) THEN Raise("ZeroDivisionError")
              ELSE Ok(<< rp, <<"rp/rprs", rp, rprs>>, rprs >>)
    ELSE IF rprs = None /\ rp # None /\ rs # None
         THEN IF is_zero(rs) THEN Raise("ZeroDivisionError")
              ELSE Ok(<< rp, rs, <<"rp/rs", rp, rs>> >>)
    ELSE Ok(<<rp, rs, rprs>>)

solve_a_rs(a, rs, ars) ==
    IF a = None /\ rs # None /\ ars # None THEN Ok(<< <<"ars*rs", ars, rs>>, rs, ars >>)
    ELSE IF rs = None /\ a # None /\ ars # None
         THEN IF is_zero(ars) THEN Raise("ZeroDivisionError")
              ELSE Ok(<< a, <<"a/ars", a, ars>>, ars >>)
    ELSE IF ars = None /\ a # None /\ rs # None
         THEN IF is_zero(rs) THEN Raise("ZeroDivisionError")
              ELSE Ok(<< a, rs, <<"a/rs", a, rs>> >>)
    ELSE Ok(<<a, rs, ars>>)

\* the three statements of complete_entry, each on the entry the one before
\* left (r is the entry so far, or what was raised)
radius_step(r) ==
    IF r.exc # "none" THEN r
    ELSE LET s == solve_rp_rs(r.val["pl_rade"], r.val["st_rad"], r.val["pl_ratror"])
         IN  IF s.exc # "none" THEN s
             ELSE Ok([r.val EXCEPT !["pl_rade"] = s.val[1], !["st_rad"] = s.val[2],
                                   !["pl_ratror"] = s.val[3]])

sma_step(r) ==
    IF r.exc # "none" THEN r
    ELSE LET s == solve_a_rs(r.val["pl_orbsmax"], r.val["st_rad"], r.val["pl_ratdor"])
         IN  IF s.exc # "none" THEN s
             ELSE Ok([r.val EXCEPT !["pl_orbsmax"] = s.val[1], !["st_rad"] = s.val[2],
                                   !["pl_ratdor"] = s.val[3]])

period_step(r) ==
    IF r.exc # "none" THEN r
    ELSE LET s == solve_period_sma(r.val["pl_orbper"], r.val["pl_orbsmax"], r.val["st_mass"])
         IN  Ok([r.val EXCEPT !["pl_orbper"] = s[1], !["pl_orbsmax"] = s[2]])

complete_entry(e) ==
    CHOOSE done \in { period_step(r2) : r2 \in { sma_step(r1) : r1 \in { radius_step(Ok(e)) } } } :
        TRUE

Count(b) == IF b THEN 1 ELSE 0

points(e) ==
    Count(e["st_teff"] = None) + Count(e["st_logg"] = None) + Count(e["st_met"] = None)
    + Count(e["pl_trandur"] = None) + Count(e["pl_rade"] = None)
    + Count(e["pl_orbsmax"] = None /\ e["pl_ratdor"] = None)
    + Count(e["st_rad"] = None /\ e["pl_ratror"] = None)

\* the entries in the order they came
rank_unsorted(entries) == { [k \in 1 .. Len(entries) |-> k] }

\* np.argsort(points): the default kind is quicksort, which is not stable, so
\* entries with equal points come in an order the numpy build decides
rank_planets(entries) ==
    { r \in Permutations(1 .. Len(entries)) :
        \A a \in 1 .. Len(entries), b \in 1 .. Len(entries) :
            a < b => points(entries[r[a]]) <= points(entries[r[b]]) }

\* every field is taken from the entry, also where the entry has None
gap_fill_overwrite(planet, e) == [field \in Fields |-> e[field]]

\* 'for field in planet.keys(): if planets[i][field] is None and ...'
gap_fill(planet, e) ==
    [field \in Fields |->
        IF planet[field] = None /\ e[field] # None THEN e[field] ELSE planet[field]]

\* one turn of 'for j in rank' on the duplicate at place k of resp: m is
\* [exc, planet (planets[i]), rows (resp)]; complete_entry(dups[j]) writes
\* into resp
fill_gap(m, k) ==
    LET e == complete_entry(m.rows[k])
    IN  IF e.exc # "none" THEN [m EXCEPT !.exc = e.exc]
        ELSE [m EXCEPT !.planet = gap_fill(m.planet, e.val),
                       !.rows = [m.rows EXCEPT ![k] = e.val]]

\* 'for j in rank': dup_idx are the places in resp of the duplicates
RECURSIVE fill_gaps(_, _, _)
fill_gaps(m, dup_idx, r) ==
    IF m.exc # "none" \/ r = <<>> THEN m
    ELSE CHOOSE done \in { fill_gaps(filled, dup_idx, Tail(r)) :
                           filled \in { fill_gap(m, dup_idx[Head(r)]) } } : TRUE

\* the places of the rows other than j, in the order of the response
RECURSIVE others(_, _)
others(n, j) ==
    IF n = 0 THEN <<>>
    ELSE others(n - 1, j) \o (IF n = j THEN <<>> ELSE <<n>>)

idx_default(rows) ==
    IF \E i \in 1 .. Len(rows) : rows[i]["default_flag"] = <<1>>
    THEN CHOOSE i \in 1 .. Len(rows) :
             /\ rows[i]["default_flag"] = <<1>>
             /\ \A j \in 1 .. (i - 1) : rows[j]["default_flag"] # <<1>>
    ELSE 0

dups(rows) == LET dup_idx == others(Len(rows), idx_default(rows))
              IN  [k \in 1 .. Len(dup_idx) |-> rows[dup_idx[k]]]

\* 'planets[i] = complete_entry(resp[j].copy())' for the default row j
first_entry(rows, j) ==
    LET base == complete_entry(rows[j])
    IN  [exc |-> base.exc, planet |-> base.val, rows |-> rows]

\* 'planets[i] = complete_entry(planets[i])' after the loop
last_entry(m) ==
    IF m.exc # "none" THEN m
    ELSE LET final == complete_entry(m.planet)
         IN  [m EXCEPT !.exc = final.exc, !.planet = final.val]

\* one turn of 'for i in range(nplanets)' on the rows of planet i, with r what
\* rank_planets returned; def_flags.index(1) raises ValueError without a
\* default row
merge_planet(rows, r) ==
    IF idx_default(rows) = 0 THEN [exc |-> "ValueError", planet |-> <<>>, rows |-> rows]
    ELSE CHOOSE done \in
             { last_entry(m) :
               m \in { fill_gaps(first, others(Len(rows), idx_default(rows)), r) :
                       first \in { first_entry(rows, idx_default(rows)) } } } : TRUE

---------------------------------------------------------------------------
(* Values of the variables of the routines that are not running *)

Pending == [exc |-> "pending", val |-> <<>>]

IdleNormalize == target = <<>> /\ once = Pending /\ twice = Pending
IdleAliases == lines = <<>> /\ as_hosts = FALSE /\ aliases = Pending
IdleCatalog == cat = Pending
IdleMerge == fetched = <<>> /\ resp = <<>> /\ planets_i = Pending /\ rank = <<>>
IdleComplete == entry = <<>> /\ completed = Pending
IdleLetter == letter_name = <<>> /\ letter_ret = Pending
IdleCurate == kept_aliases = <<>>
IdleTargets == database = <<>> /\ targets = Pending
IdleTrexo == trexolist_data = <<>> /\ clusters = <<>>
IdleSolve == triple = <<>> /\ solved = Pending
IdleSelect ==
    alias_list = <<>> /\ catalog_names = <<>> /\ default_name = <<>> /\ selected = Pending
IdleInvert == inverted = <<>>
IdleTess == tess_resp = <<>> /\ nea_table = <<>> /\ nea_pickle = <<>> /\ candidates = Pending
IdleSave == merged = <<>> /\ nea_text = Pending
IdleRest == IdleSelect /\ IdleInvert /\ IdleTess /\ IdleSave
IdleUtil == IdleLetter /\ IdleCurate /\ IdleTargets /\ IdleTrexo /\ IdleSolve /\ IdleRest
IdleMain == IdleNormalize /\ IdleAliases /\ IdleCatalog /\ IdleMerge /\ IdleComplete

---------------------------------------------------------------------------
(* Raw names: up to MaxTokens pieces of target names, one after the other *)

MaxTokens == 3

Tokens == {
    <<"L">>, <<"H","D">>, <<"G","L">>, <<"A">>, <<"-">>, <<" ">>, <<"1">>,
    <<"b">>, <<"C","D","-">>, <<"-","o","f","f","s","e","t">>,
    <<"K","E","P","L","E","R">>, <<"W","D"," ","1","8","5","6">> }

RECURSIVE RawNames(_)
RawNames(n) ==
    IF n = 0 THEN { <<>> }
    ELSE LET shorter == RawNames(n - 1)
         IN  shorter \cup { s \o t : s \in shorter, t \in Tokens }

InitNormalize ==
    /\ target \in RawNames(MaxTokens)
    /\ once = Pending /\ twice = Pending
    /\ IdleAliases /\ IdleCatalog /\ IdleMerge /\ IdleComplete /\ IdleUtil
    /\ pc = "normalize"

\* name = normalize_name(target)
Normalize ==
    /\ pc = "normalize"
    /\ once' = normalize_name(target)
    /\ pc' = "normalized"
    /\ UNCHANGED <<target, twice, lines, as_hosts, aliases, cat,
                   fetched, resp, planets_i, rank, entry, completed,
                   utilVars>>

\* normalize_name(name), for a name that normalize_name returned
NormalizeAgain ==
    /\ pc = "normalized"
    /\ once.exc = "none"
    /\ twice' = normalize_name(once.val)
    /\ pc' = "renormalized"
    /\ UNCHANGED <<target, once, lines, as_hosts, aliases, cat,
                   fetched, resp, planets_i, rank, entry, completed,
                   utilVars>>

NextNormalize == Normalize \/ NormalizeAgain

SpecNormalize == InitNormalize /\ [][NextNormalize]_vars

\* C1: for every raw name on which normalize_name returns, normalizing the
\* result again returns the same name: normalize_name is idempotent.
C1_Idempotent == pc = "renormalized" => twice = once

\* C2: normalize_name returns a string for every input string (the empty
\* string, a one-character string and a bare catalog prefix included); it
\* never raises.
C2_NeverRaises == pc = "normalized" => once.exc = "none"

---------------------------------------------------------------------------
(* nea_aliases.txt: up to MaxLines lines 'name:alias,alias', as                *)
(* curate_aliases writes them: one line for a name, the name that of a planet  *)
(* with a letter, one or two aliases out of AliasNames                         *)

MaxLines == 2

LetterNames == { <<"A"," ","b">>, <<"B"," ","c">>, <<"K"," ","b">> }

AliasNameList == << <<"A"," ","b">>, <<"B"," ","c">>, <<"K"," ","b">>,
                    <<"K"," ","c">>, <<"T",".","0","1">>, <<"H","D">> >>

AliasNames == { AliasNameList[i] : i \in 1 .. Len(AliasNameList) }

AliasLists ==
    { <<a>> : a \in AliasNames } \cup
    { <<AliasNameList[p[1]], AliasNameList[p[2]]>> :
      p \in { q \in (1 .. Len(AliasNameList)) \X (1 .. Len(AliasNameList)) : q[1] < q[2] } }

RECURSIVE join(_, _)
join(names, c) ==
    IF names = <<>> THEN <<>>
    ELSE IF Len(names) = 1 THEN names[1]
    ELSE names[1] \o <<c>> \o join(Tail(names), c)

\* every alias of the line after one blank, with no comma between them
AliasLineBlanks(name, list) == name \o <<":">> \o join(list, " ") \o <<"\n">>

AliasLine(name, list) == name \o <<":">> \o join(list, ",") \o <<"\n">>

\* the name of a line: line[:line.index(':')]
LineName(line) == SubSeq(line, 1, (CHOOSE i \in 1 .. Len(line) : line[i] = ":") - 1)

InitAliases ==
    /\ \E n \in 0 .. MaxLines :
       \E names \in [1 .. n -> LetterNames], lists \in [1 .. n -> AliasLists] :
           /\ \A i \in 1 .. n, j \in 1 .. n : names[i] = names[j] => i = j
           /\ lines = [i \in 1 .. n |-> AliasLine(names[i], lists[i])]
    /\ as_hosts \in BOOLEAN
    /\ aliases = Pending
    /\ IdleNormalize /\ IdleCatalog /\ IdleMerge /\ IdleComplete /\ IdleUtil
    /\ pc = "load_aliases"

LoadAliases ==
    /\ pc = "load_aliases"
    /\ aliases' = load_aliases(lines, as_hosts)
    /\ pc' = "aliases_loaded"
    /\ UNCHANGED <<target, once, twice, lines, as_hosts, cat,
                   fetched, resp, planets_i, rank, entry, completed,
                   utilVars>>

NextAliases == LoadAliases

SpecAliases == InitAliases /\ [][NextAliases]_vars

\* C3: when the alias table lists one alias (after the host truncation, in
\* host mode) under two different canonical names, load_aliases fails with
\* an error instead of returning an index that keeps one of the two.
LineAliases(line) == Range(split(strip(From(line, find(line, <<":">>, 0) + 1)), ","))
Parsed(names, hosts) == { parse(n, hosts).val : n \in { m \in names : parse(m, hosts).exc = "none" } }
Listed(ls, hosts) ==
    UNION { UNION { { <<a, n>> : a \in Parsed(LineAliases(l), hosts) \ {n} } :
                    n \in Parsed({LineName(l)}, hosts) } : l \in Range(ls) }
Ambiguous(ls, hosts) ==
    \E p \in Listed(ls, hosts), q \in Listed(ls, hosts) : p[1] = q[1] /\ p[2] # q[2]
C3_AmbiguousAliasFails ==
    (pc = "aliases_loaded" /\ Ambiguous(lines, as_hosts)) => aliases.exc # "none"

\* a name without its planet letter or its candidate dot suffix; whole if it
\* has neither
HostName(s) ==
    IF Len(s) >= 2 /\ s[Len(s)] \in Lower /\ s[Len(s) - 1] = " "
    THEN SubSeq(s, 1, Len(s) - 2)
    ELSE IF \E i \in 1 .. Len(s) : s[i] = "."
    THEN SubSeq(s, 1, (CHOOSE i \in 1 .. Len(s) :
                          s[i] = "." /\ \A j \in (i + 1) .. Len(s) : s[j] # ".") - 1)
    ELSE s

\* C25: load_aliases in host mode returns for every alias file, and its keys
\* and values are the aliases and the names of the lines without their
\* planet letter or dot suffix, a name with neither suffix whole.
C25_HostModeCompletes ==
    (pc = "aliases_loaded" /\ as_hosts) =>
        /\ aliases.exc = "none"
        /\ \A i \in 1 .. Len(aliases.val) :
              \E l \in 1 .. Len(lines) :
                  /\ aliases.val[i][2] = HostName(LineName(lines[l]))
                  /\ aliases.val[i][1] \in { HostName(a) : a \in LineAliases(lines[l]) }
        /\ \A l \in 1 .. Len(lines) : \A a \in LineAliases(lines[l]) :
              HostName(a) # HostName(LineName(lines[l]))
                  => HostName(a) \in { aliases.val[i][1] : i \in 1 .. Len(aliases.val) }

\* C14: in the index load_aliases returns, in planet mode and in host mode,
\* no key is equal to its own value.
C14_NoSelfAlias ==
    (pc = "aliases_loaded" /\ aliases.exc = "none")
    => \A i \in 1 .. Len(aliases.val) : aliases.val[i][1] # aliases.val[i][2]

\* a line lists an alias that differs from the name of the line and is equal
\* to it after the truncation to the host
SelfAfterTruncation(line) ==
    \E a \in LineAliases(line) :
        /\ a # LineName(line)
        /\ parse(a, TRUE) = parse(LineName(line), TRUE)

C14_Witness ==
    /\ pc = "aliases_loaded" /\ as_hosts
    /\ aliases.exc = "none" /\ aliases.val # <<>>
    /\ \E i \in 1 .. Len(lines) : SelfAfterTruncation(lines[i])

---------------------------------------------------------------------------
(* The inputs of Catalog(): the tables of nea_data.txt and tess_data.txt   *)
(* (planet, host, transit duration), the hosts of the observation log, and *)
(* an alias file                                                           *)

MaxConfirmed == 2
MaxCandidates == 1
MaxTargets == 2

HostOf(planet) == Upto(planet, rindex(planet, IF is_letter(planet).val THEN " " ELSE "."))

ConfirmedNames == { <<"A"," ","b">>, <<"A"," ","c">>, <<"B"," ","b">> }
CandidateNames == { <<"A"," ","b">>, <<"T",".","0","1">> }
TrexoHosts == { <<"A">>, <<"B">>, <<"X">> }
CatalogAliasNames == { <<"A"," ","b">>, <<"B"," ","b">>, <<"X"," ","b">> }
Durations == { None, <<1>> }

Rows(names) == { [planet |-> p, host |-> HostOf(p), tr_dur |-> d] : p \in names, d \in Durations }

\* tables of up to n rows, no planet twice in one table
RECURSIVE Tables(_, _)
Tables(names, n) ==
    IF n = 0 THEN { <<>> }
    ELSE LET shorter == Tables(names, n - 1)
         IN  shorter \cup
             UNION { { Append(t, r) :
                       r \in { x \in Rows(names) :
                               \A i \in 1 .. Len(t) : t[i].planet # x.planet } } :
                     t \in shorter }

\* the distinct hosts of the observation log, up to n of them
RECURSIVE TargetLists(_)
TargetLists(n) ==
    IF n = 0 THEN { <<>> }
    ELSE LET shorter == TargetLists(n - 1)
         IN  shorter \cup UNION { { Append(t, h) : h \in TrexoHosts \ Range(t) } : t \in shorter }

CatalogAliasFiles ==
    { <<>> } \cup { << AliasLine(p[1], <<p[2]>>) >> :
                    p \in { q \in CatalogAliasNames \X CatalogAliasNames : q[1] # q[2] } }

Column(table, field) == [i \in 1 .. Len(table) |-> table[i][field]]

InitCatalog ==
    /\ \E nea_data \in Tables(ConfirmedNames, MaxConfirmed),
          tess_data \in Tables(CandidateNames, MaxCandidates),
          trexo_targets \in TargetLists(MaxTargets) :
          cat = [ exc |-> "none",
                  confirmed_planets |-> Column(nea_data, "planet"),
                  tess_planets |-> Column(tess_data, "planet"),
                  planets |-> Column(nea_data, "planet") \o Column(tess_data, "planet"),
                  hosts |-> Column(nea_data, "host") \o Column(tess_data, "host"),
                  tr_dur |-> Column(nea_data, "tr_dur") \o Column(tess_data, "tr_dur"),
                  trexo_targets |-> trexo_targets,
                  jwst_targets |-> trexo_targets,
                  trexo |-> [j \in 1 .. Len(trexo_targets) |-> <<j, j>>],
                  is_transiting |-> <<>>, is_jwst |-> <<>>, is_confirmed |-> <<>>,
                  trexo_coords |-> <<>>,
                  jwst_aliases |-> <<>>, transit_aliases |-> <<>>,
                  non_transit_aliases |-> <<>>, confirmed_aliases |-> <<>>,
                  candidate_aliases |-> <<>> ]
    /\ lines \in CatalogAliasFiles
    /\ as_hosts = FALSE /\ aliases = Pending
    /\ IdleNormalize /\ IdleMerge /\ IdleComplete /\ IdleUtil
    /\ pc = "jwst_targets"

\* lines 78-87: the host aliases and the loop that renames the observed hosts
ResolveHosts ==
    /\ pc = "jwst_targets"
    /\ LET host_aliases == load_aliases(lines, TRUE) IN
       IF host_aliases.exc # "none"
       THEN cat' = [cat EXCEPT !.exc = host_aliases.exc]
       ELSE LET resolved == resolve_hosts(cat.jwst_targets, host_aliases.val,
                                          invert_aliases(host_aliases.val),
                                          Range(cat.hosts))
            IN  cat' = [cat EXCEPT !.exc = resolved.exc,
                                   !.jwst_targets =
                                       IF resolved.exc = "none" THEN resolved.val ELSE @]
    /\ pc' = "planet_aliases"
    /\ UNCHANGED <<target, once, twice, lines, as_hosts, aliases,
                   fetched, resp, planets_i, rank, entry, completed,
                   utilVars>>

\* lines 89-129: the planet aliases, the flags and the alias lists
Classify ==
    /\ pc = "planet_aliases"
    /\ cat.exc = "none"
    /\ aliases' = load_aliases(lines, FALSE)
    /\ LET planets_aka == invert_aliases(aliases'.val)
           n == Len(cat.planets)
           jwst == [i \in 1 .. n |-> is_jwst_flag(cat, i)]
           transit == [i \in 1 .. n |-> is_transiting_flag(cat, i)]
           non_transit == [i \in 1 .. n |-> ~is_transiting_flag(cat, i)]
           confirmed == [i \in 1 .. n |-> is_confirmed_flag(cat, i)]
           candidate == [i \in 1 .. n |-> ~is_confirmed_flag(cat, i)]
       IN  IF aliases'.exc # "none"
           THEN cat' = [cat EXCEPT !.exc = aliases'.exc]
           ELSE cat' = [cat EXCEPT
                    !.is_transiting = transit,
                    !.is_confirmed = confirmed,
                    !.is_jwst = jwst,
                    !.trexo_coords = [i \in 1 .. n |-> trexo_coord(cat, planets_aka, i)],
                    !.jwst_aliases = alias_bucket(cat, planets_aka, jwst, n),
                    !.transit_aliases = alias_bucket(cat, planets_aka, transit, n),
                    !.non_transit_aliases = alias_bucket(cat, planets_aka, non_transit, n),
                    !.confirmed_aliases = alias_bucket(cat, planets_aka, confirmed, n),
                    !.candidate_aliases = alias_bucket(cat, planets_aka, candidate, n)]
    /\ pc' = "assembled"
    /\ UNCHANGED <<target, once, twice, lines, as_hosts,
                   fetched, resp, planets_i, rank, entry, completed,
                   utilVars>>

NextCatalog == ResolveHosts \/ Classify

SpecCatalog == InitCatalog /\ [][NextCatalog]_vars

Assembled == pc = "assembled" /\ cat.exc = "none"

\* C4: an observed host that cannot be resolved to a catalog host (no key of
\* the host alias index, no catalog host, no alias of it a catalog host) does
\* not abort the assembly.
Unresolvable(t) ==
    LET host_aliases == load_aliases(lines, TRUE).val
        hosts_aka == invert_aliases(host_aliases)
    IN  /\ t \notin Keys(host_aliases)
        /\ t \notin Range(cat.hosts)
        /\ t \in Keys(hosts_aka) => Range(Get(hosts_aka, t)) \cap Range(cat.hosts) = {}
C4_UnresolvedHostDoesNotAbort ==
    (pc = "planet_aliases" /\ \E t \in Range(cat.trexo_targets) : Unresolvable(t))
        => cat.exc = "none"

\* C5: a planet whose name is in the confirmed list and in the candidate list
\* has is_confirmed true in the assembled catalog.
C5_ConfirmedListDecides ==
    Assembled =>
        \A i \in 1 .. Len(cat.planets) :
            (cat.planets[i] \in Range(cat.confirmed_planets)
             /\ cat.planets[i] \in Range(cat.tess_planets)) => cat.is_confirmed[i]

\* C6: in the assembled catalog no planet name is at two positions of the
\* planets list.
C6_PlanetNamesUnique ==
    Assembled =>
        \A i \in 1 .. Len(cat.planets), j \in 1 .. Len(cat.planets) :
            cat.planets[i] = cat.planets[j] => i = j

\* C7: in every assembled catalog is_jwst[i] implies is_transiting[i]: a planet
\* without transit duration is never flagged is_jwst, also when its host is
\* one of the resolved observed hosts.
C7_JwstImpliesTransiting ==
    Assembled =>
        \A i \in 1 .. Len(cat.planets) :
            /\ cat.is_jwst[i] => cat.is_transiting[i]
            /\ cat.tr_dur[i] = None => ~cat.is_jwst[i]

C7_Witness ==
    /\ Assembled
    /\ \E i \in 1 .. Len(cat.planets) :
           /\ cat.hosts[i] \in Range(cat.jwst_targets)
           /\ cat.tr_dur[i] = None
           /\ ~cat.is_jwst[i]
    /\ \E i \in 1 .. Len(cat.planets) : cat.is_jwst[i]

\* C21: after the hosts of the observation log are resolved, a host that is
\* itself in the host list of the catalog is resolved to itself: the host
\* aliases are used only for a host that is not in the list.
C21_DirectMatchFirst ==
    (pc \in { "planet_aliases", "assembled" } /\ cat.exc = "none") =>
        \A i \in 1 .. Len(cat.trexo_targets) :
            cat.trexo_targets[i] \in Range(cat.hosts)
                => cat.jwst_targets[i] = cat.trexo_targets[i]

\* C20: in every assembled catalog trexo_coords[i] is set exactly when
\* is_jwst[i] is true, also for a planet that has no aliases.
C20_CoordsIffJwst ==
    Assembled =>
        \A i \in 1 .. Len(cat.planets) : (cat.trexo_coords[i] # None) <=> cat.is_jwst[i]

---------------------------------------------------------------------------
(* The rows the archive returns for one planet: up to MaxRows rows, one of  *)
(* them with default_flag 1 (the archive flags one row per planet).  Row k  *)
(* has the number k in every field it knows; the fields of VaryFields are   *)
(* known or not row by row, pl_ratror is in no row, every other field in    *)
(* every row.                                                               *)

MaxRows == 3

VaryFields == { "st_rad", "pl_orbsmax", "pl_ratdor" }

Row(k, flag, nulls) ==
    [field \in Fields |->
        IF field = "default_flag" THEN <<flag>>
        ELSE IF field \in nulls \cup {"pl_ratror"} THEN None
        ELSE <<k>>]

InitMerge ==
    /\ \E n \in 1 .. MaxRows :
       \E d \in 1 .. n, nulls \in [1 .. n -> SUBSET VaryFields] :
           fetched = [k \in 1 .. n |-> Row(k, IF k = d THEN 1 ELSE 0, nulls[k])]
    /\ resp = fetched
    /\ planets_i = Pending /\ rank = <<>>
    /\ IdleNormalize /\ IdleAliases /\ IdleCatalog /\ IdleComplete /\ IdleUtil
    /\ pc = "merge"

\* lines 266-281 for one planet
Merge ==
    /\ pc = "merge"
    /\ \E r \in rank_planets(dups(resp)) :
       \E m \in { merge_planet(resp, r) } :
           /\ rank' = r
           /\ planets_i' = [exc |-> m.exc, val |-> m.planet]
           /\ resp' = m.rows
    /\ pc' = "merged"
    /\ UNCHANGED <<target, once, twice, lines, as_hosts, aliases, cat,
                   fetched, entry, completed,
                   utilVars>>

NextMerge == Merge

SpecMerge == InitMerge /\ [][NextMerge]_vars

Merged == pc = "merged" /\ planets_i.exc = "none"

Permuted(rows, p) == [i \in 1 .. Len(rows) |-> rows[p[i]]]

\* the records the merge can end with on these rows
Outcomes(rows) == { merge_planet(rows, r).planet : r \in rank_planets(dups(rows)) }

SameInEveryOrder ==
    \A p \in Permutations(1 .. Len(fetched)) :
        Outcomes(Permuted(fetched, p)) = { planets_i.val }

DistinctPoints ==
    \A a \in 1 .. Len(dups(fetched)), b \in 1 .. Len(dups(fetched)) :
        a # b => points(dups(fetched)[a]) # points(dups(fetched)[b])

\* some field the default row lacks is known, with different numbers, to two
\* other rows
Contested ==
    \E field \in Fields, a \in 1 .. Len(fetched), b \in 1 .. Len(fetched) :
        /\ a # b
        /\ fetched[idx_default(fetched)][field] = None
        /\ fetched[a][field] # None /\ fetched[b][field] # None
        /\ fetched[a][field] # fetched[b][field]

\* C8 as claimed: the merge of the rows of one planet ends with the same
\* record in whatever order the rows come, also when two duplicates have the
\* same penalty and different numbers for a field.
C8_OrderIndependent == Merged => SameInEveryOrder

\* C8 as amended: with one default row and no two other rows of the same
\* penalty, the merge ends with the same record in whatever order the rows
\* come.
C8_OrderIndependentWithoutTies == (Merged /\ DistinctPoints) => SameInEveryOrder

C8_Witness == Merged /\ DistinctPoints /\ Contested /\ Len(fetched) >= 3

NonNull(e) == Cardinality({ field \in Fields : e[field] # None })

\* C9: the merged record has at least as many non-null fields as each row of
\* the planet as fetched, the default row and every duplicate.
C9_GapFillMonotone ==
    Merged => \A k \in 1 .. Len(fetched) : NonNull(planets_i.val) >= NonNull(fetched[k])

C9_Witness ==
    /\ Merged
    /\ \E field \in Fields, k \in 1 .. Len(fetched) :
           /\ fetched[idx_default(fetched)][field] = None
           /\ fetched[k][field] # None
           /\ planets_i.val[field] = fetched[k][field]
    /\ \A k \in 1 .. Len(fetched) : NonNull(planets_i.val) > NonNull(fetched[k])

\* the default row and the duplicates as fetched, the duplicates in the order
\* of rank
DefaultRow == fetched[idx_default(fetched)]
Ranked == [a \in 1 .. Len(rank) |->
              fetched[others(Len(fetched), idx_default(fetched))[rank[a]]]]
Knowing(field) == { a \in 1 .. Len(Ranked) : Ranked[a][field] # None }
FirstKnowing(field) == CHOOSE a \in Knowing(field) : \A b \in Knowing(field) : a <= b

\* C16: in the merged record a field the default row knows has the value of
\* the default row, and a field the default row lacks and some duplicate
\* knows has the value, as fetched, of the first duplicate in rank order that
\* knows it (no value is derived before the gaps are filled).
C16_RawValuesBeforeDerived ==
    Merged => \A field \in Fields :
        /\ DefaultRow[field] # None => planets_i.val[field] = DefaultRow[field]
        /\ (DefaultRow[field] = None /\ Knowing(field) # {})
              => planets_i.val[field] = Ranked[FirstKnowing(field)][field]

Nulls(e, fields) == Cardinality({ field \in fields : e[field] = None })

\* C17: in the merged record neither (pl_rade, st_rad, pl_ratror) nor
\* (pl_orbsmax, st_rad, pl_ratdor) has exactly one member that is null.
C17_NoTripleWithOneGap ==
    Merged => /\ Nulls(planets_i.val, {"pl_rade", "st_rad", "pl_ratror"}) # 1
              /\ Nulls(planets_i.val, {"pl_orbsmax", "st_rad", "pl_ratdor"}) # 1

Penalty(e) ==
    Nulls(e, {"st_teff", "st_logg", "st_met", "pl_trandur", "pl_rade"})
    + Count(Nulls(e, {"pl_orbsmax", "pl_ratdor"}) = 2)
    + Count(Nulls(e, {"st_rad", "pl_ratror"}) = 2)

\* C19: rank is a permutation of the places of the duplicates, in
\* non-decreasing order of penalty, and duplicates of equal penalty are in it
\* in the order they have in the response.
C19_StableRank ==
    pc = "merged" =>
        LET entries == dups(fetched) IN
        /\ Len(rank) = Len(entries)
        /\ { rank[a] : a \in 1 .. Len(rank) } = 1 .. Len(entries)
        /\ \A a \in 1 .. Len(rank), b \in 1 .. Len(rank) :
              a < b => /\ Penalty(entries[rank[a]]) <= Penalty(entries[rank[b]])
                       /\ Penalty(entries[rank[a]]) = Penalty(entries[rank[b]])
                            => rank[a] < rank[b]

---------------------------------------------------------------------------
(* One entry for complete_entry: every member of the three triples is None  *)
(* or a number of 0 .. MaxValue                                             *)

MaxValue == 1

TripleFields == { "pl_rade", "st_rad", "pl_ratror", "pl_orbsmax", "pl_ratdor",
                  "pl_orbper", "st_mass" }

Entries ==
    { [field \in Fields |-> IF field \in TripleFields THEN t[field] ELSE <<1>>] :
      t \in [TripleFields -> {None} \cup { <<v>> : v \in 0 .. MaxValue }] }

InitComplete ==
    /\ entry \in Entries
    /\ completed = Pending
    /\ IdleNormalize /\ IdleAliases /\ IdleCatalog /\ IdleMerge /\ IdleUtil
    /\ pc = "complete_entry"

CompleteEntry ==
    /\ pc = "complete_entry"
    /\ completed' = complete_entry(entry)
    /\ pc' = "completed"
    /\ UNCHANGED <<target, once, twice, lines, as_hosts, aliases, cat,
                   fetched, resp, planets_i, rank, entry,
                   utilVars>>

NextComplete == CompleteEntry

SpecComplete == InitComplete /\ [][NextComplete]_vars

Completed == pc = "completed" /\ completed.exc = "none"

Kepler == { "pl_orbper", "pl_orbsmax", "st_mass" }

\* C10 as claimed: when one member of (period, semi-major axis, stellar mass)
\* was null and the two others known, that member is not null after the
\* completion, the stellar mass included.
C10_KeplerTripleSolved ==
    Completed =>
        \A field \in Kepler :
            (entry[field] = None /\ \A other \in Kepler \ {field} : entry[other] # None)
                => completed.val[field] # None

\* C10 as amended: with the stellar mass known and not zero, a null period is
\* not null after the completion when the semi-major axis was known, and a
\* null semi-major axis is not null when the period was known; a null stellar
\* mass stays null.
C10_PeriodAndSmaSolved ==
    Completed =>
        /\ (entry["st_mass"] # None /\ ~is_zero(entry["st_mass"])) =>
               /\ (entry["pl_orbper"] = None /\ entry["pl_orbsmax"] # None)
                      => completed.val["pl_orbper"] # None
               /\ (entry["pl_orbsmax"] = None /\ entry["pl_orbper"] # None)
                      => completed.val["pl_orbsmax"] # None
        /\ entry["st_mass"] = None => completed.val["st_mass"] = None

C10_Witness ==
    /\ Completed
    /\ entry["pl_orbsmax"] = None
    /\ completed.val["pl_orbsmax"] = <<"kepler_sma", entry["pl_orbper"], entry["st_mass"]>>

---------------------------------------------------------------------------
(* is_letter on the names of up to MaxChars characters of NameChars *)

MaxChars == 3

NameChars == { "b", "A", " ", "1", "." }

RECURSIVE Names(_)
Names(n) ==
    IF n = 0 THEN { <<>> }
    ELSE LET shorter == Names(n - 1)
         IN  shorter \cup { Append(s, c) : s \in shorter, c \in NameChars }

InitLetter ==
    /\ letter_name \in Names(MaxChars)
    /\ letter_ret = Pending
    /\ IdleMain /\ IdleCurate /\ IdleTargets /\ IdleTrexo /\ IdleSolve /\ IdleRest
    /\ pc = "is_letter"

IsLetter ==
    /\ pc = "is_letter"
    /\ letter_ret' = is_letter(letter_name)
    /\ pc' = "is_letter_done"
    /\ UNCHANGED <<mainVars, letter_name, curateVars, targetsVars, trexoVars, solveVars,
                   restVars>>

NextLetter == IsLetter

SpecLetter == InitLetter /\ [][NextLetter]_vars

\* C11: for every name shorter than two characters (the empty name, every
\* name of one character, a lower-case letter included) is_letter returns
\* false and does not raise.
C11_ShortNameIsNoLetter ==
    (pc = "is_letter_done" /\ Len(letter_name) < 2) => letter_ret = Ok(FALSE)

---------------------------------------------------------------------------
(* catalog_utils.get_letter on the same names *)

\* is_letter(name) is evaluated first, and what it raises is raised
get_letter(s) ==
    LET letter == is_letter(s) IN
    IF letter.exc # "none" THEN letter
    ELSE IF letter.val THEN Ok(From(s, Len(s) - 2))
    ELSE IF rindex(s, ".") >= 0 THEN Ok(From(s, rindex(s, ".")))
    ELSE Ok(<<>>)

InitGetLetter ==
    /\ letter_name \in Names(MaxChars)
    /\ letter_ret = Pending
    /\ IdleMain /\ IdleCurate /\ IdleTargets /\ IdleTrexo /\ IdleSolve /\ IdleRest
    /\ pc = "get_letter"

GetLetter ==
    /\ pc = "get_letter"
    /\ letter_ret' = get_letter(letter_name)
    /\ pc' = "get_letter_done"
    /\ UNCHANGED <<mainVars, letter_name, curateVars, targetsVars, trexoVars, solveVars,
                   restVars>>

NextGetLetter == GetLetter

SpecGetLetter == InitGetLetter /\ [][NextGetLetter]_vars

EndsWithLetter(s) ==
    Len(s) >= 2 /\ s[Len(s)] \in Lower /\ s[Len(s) - 1] = " "

Dots(s) == { i \in 1 .. Len(s) : s[i] = "." }

\* C24: get_letter returns the last two characters of a name that ends with
\* a blank and a lower-case letter; of any other name with a '.', the part
\* from the last '.' on; of any other name, the empty string.
C24_LetterOrDotSuffix ==
    pc = "get_letter_done" =>
        /\ letter_ret.exc = "none"
        /\ letter_ret.val =
              IF EndsWithLetter(letter_name)
              THEN SubSeq(letter_name, Len(letter_name) - 1, Len(letter_name))
              ELSE IF Dots(letter_name) # {}
              THEN SubSeq(letter_name, CHOOSE i \in Dots(letter_name) :
                                           \A j \in Dots(letter_name) : j <= i,
                          Len(letter_name))
              ELSE <<>>

---------------------------------------------------------------------------
(* curate_aliases from the dict kept_aliases on: the lists of aliases by    *)
(* name, thinned, and the text written to nea_aliases.txt                   *)

\* [is_letter(val) for val in aliases], or what is_letter raised
RECURSIVE are_letters(_)
are_letters(names) ==
    IF names = <<>> THEN Ok(<<>>)
    ELSE LET first == is_letter(Head(names))
             rest == are_letters(Tail(names))
         IN  IF first.exc # "none" THEN first
             ELSE IF rest.exc # "none" THEN rest
             ELSE Ok(<<first.val>> \o rest.val)

\* [x for x in s if keep[x's place]]
RECURSIVE filter(_, _)
filter(s, keep) ==
    IF s = <<>> THEN <<>>
    ELSE (IF Head(keep) THEN <<Head(s)>> ELSE <<>>) \o filter(Tail(s), Tail(keep))

TOI == <<"T","O","I">>

\* the body of 'for name, aliases in aka.items()': the aliases kept for name
curated(name, names) ==
    LET letters == are_letters(names) IN
    IF letters.exc # "none" THEN letters ELSE
    LET any_letter == \E i \in 1 .. Len(names) : letters.val[i]
        lettered == IF any_letter THEN filter(names, letters.val) ELSE names
        kept == IF any_letter THEN filter(letters.val, letters.val) ELSE letters.val
        named == is_letter(name)
    IN  IF ~startswith(name, TOI) THEN Ok(lettered)
        ELSE IF named.exc # "none" THEN named
        ELSE IF ~named.val THEN Ok(lettered)
        ELSE Ok(filter(lettered,
                       [i \in 1 .. Len(lettered) |->
                           ~(startswith(lettered[i], TOI) /\ ~kept[i])]))

\* the loop over aka.items() and the loop over to_remove: r is the dict so
\* far (or what was raised), d what is left of aka
RECURSIVE curate(_, _)
curate(r, d) ==
    IF r.exc # "none" \/ d = <<>> THEN r
    ELSE LET names == curated(Head(d)[1], Head(d)[2])
         IN  curate(IF names.exc # "none" THEN names
                    ELSE IF names.val = <<>> THEN r
                    ELSE Ok(Append(r.val, <<Head(d)[1], names.val>>)),
                    Tail(d))

\* the text written: one line 'name:alias,alias' for a name of aka
write_aliases(d) == [i \in 1 .. Len(d) |-> AliasLine(d[i][1], d[i][2])]

\* lines 107-136, from kept_aliases to the lines of nea_aliases.txt
curate_aliases(kept) ==
    LET aka == curate(Ok(<<>>), invert_aliases(kept))
    IN  IF aka.exc # "none" THEN aka ELSE Ok(write_aliases(aka.val))

(* kept_aliases: up to MaxKept pairs alias: name, no alias twice (a dict), *)
(* no alias its own name, every name that of a planet with a letter        *)

MaxKept == 3

CuratedNames == { <<"A"," ","b">>, <<"T","O","I","-","1"," ","b">> }

CuratedAliases == { <<"K"," ","b">>, <<"K",".","0","1">>,
                    <<"T","O","I","-","1",".","0","1">>,
                    <<"T","O","I","-","1"," ","b">> }

InitCurate ==
    /\ \E n \in 0 .. MaxKept :
       \E akas \in [1 .. n -> CuratedAliases], names \in [1 .. n -> CuratedNames] :
           /\ \A i \in 1 .. n, j \in 1 .. n : akas[i] = akas[j] => i = j
           /\ \A i \in 1 .. n : akas[i] # names[i]
           /\ kept_aliases = [i \in 1 .. n |-> <<akas[i], names[i]>>]
    /\ IdleMain /\ IdleLetter /\ IdleTargets /\ IdleTrexo /\ IdleSolve /\ IdleRest
    /\ pc = "curate_aliases"

\* curate_aliases writes nea_aliases.txt; load_aliases() reads it next
CurateAliases ==
    /\ pc = "curate_aliases"
    /\ \E text \in { curate_aliases(kept_aliases) } :
           IF text.exc = "none"
           THEN lines' = text.val /\ pc' = "load_aliases"
           ELSE lines' = lines /\ pc' = text.exc
    /\ UNCHANGED <<target, once, twice, as_hosts, aliases, cat,
                   fetched, resp, planets_i, rank, entry, completed, utilVars>>

NextCurate == CurateAliases \/ LoadAliases

SpecCurate == InitCurate /\ [][NextCurate]_vars

\* the index as curate_aliases emits it: the pairs <<alias, name>> of the
\* lists it writes
Emitted ==
    LET aka == curate(Ok(<<>>), invert_aliases(kept_aliases)).val
    IN  UNION { { <<aka[i][2][k], aka[i][1]>> : k \in 1 .. Len(aka[i][2]) } :
                i \in 1 .. Len(aka) }

Loaded == { <<aliases.val[i][1], aliases.val[i][2]>> : i \in 1 .. Len(aliases.val) }

\* C12: load_aliases in planet mode, on the text curate_aliases writes,
\* returns the index that was written: the same aliases, each with the same
\* name.
C12_RoundTrip ==
    (pc = "aliases_loaded" /\ ~as_hosts) => (aliases.exc = "none" /\ Loaded = Emitted)

C12_Witness ==
    /\ pc = "aliases_loaded" /\ ~as_hosts
    /\ Len(lines) = 2
    /\ Cardinality(Loaded) = 2
    /\ Len(kept_aliases) = 3

---------------------------------------------------------------------------
(* catalogs.load_targets *)

\* s[i:j] for 0 <= i and -1 <= j
slice(s, i, j) == SubSeq(s, i + 1, IF j < 0 THEN Len(s) + j ELSE j)

\* s.split(): the runs of characters that are not white space
RECURSIVE split_ws(_)
split_ws(s) ==
    IF s = <<>> THEN <<>>
    ELSE IF isspace(Head(s)) THEN split_ws(Tail(s))
    ELSE LET blanks == { i \in 1 .. Len(s) : isspace(s[i]) }
             end == IF blanks = {} THEN Len(s) + 1
                    ELSE CHOOSE i \in blanks : \A j \in blanks : i <= j
         IN  <<SubSeq(s, 1, end - 1)>> \o split_ws(SubSeq(s, end, Len(s)))

Digits == <<"0","1","2","3","4","5","6","7","8","9">>

\* float(word) for a word of digits; ValueError for any other word of the model
RECURSIVE to_number(_)
to_number(word) ==
    IF word = <<>> THEN Raise("ValueError")
    ELSE IF \E c \in 1 .. Len(word) : \A d \in 1 .. Len(Digits) : Digits[d] # word[c]
         THEN Raise("ValueError")
    ELSE IF Len(word) = 1 THEN Ok((CHOOSE d \in 1 .. Len(Digits) : Digits[d] = word[1]) - 1)
    ELSE Ok(10 * to_number(SubSeq(word, 1, Len(word) - 1)).val
            + to_number(<<word[Len(word)]>>).val)

\* np.array(words, float)
RECURSIVE float_array(_)
float_array(words) ==
    IF words = <<>> THEN Ok(<<>>)
    ELSE LET first == to_number(Head(words))
             rest == float_array(Tail(words))
         IN  IF first.exc # "none" THEN first
             ELSE IF rest.exc # "none" THEN rest
             ELSE Ok(<<first.val>> \o rest.val)

\* 'ra, dec, ks_mag, rstar, mstar, teff, logg, metal = star_vals'
StarArity == 8
\* 'transit_dur, rplanet, mplanet, sma, period, teq = planet_vals'
PlanetArity == 6

Undefined == <<"undefined">>

\* one turn of 'for line in lines': r is [exc, host, star_vals, targets]; the
\* unpacking raises ValueError unless the line has as many values as names,
\* host is an unbound local until the first '>' line
read_target(r, line) ==
    LET name_len == find(line, <<":">>, 0)
        vals == float_array(split_ws(From(line, name_len + 1)))
    IN  IF startswith(line, <<">">>)
        THEN IF vals.exc # "none" THEN [r EXCEPT !.exc = vals.exc]
             ELSE IF Len(vals.val) # StarArity THEN [r EXCEPT !.exc = "ValueError"]
             ELSE [r EXCEPT !.host = slice(line, 1, name_len), !.star_vals = vals.val]
        ELSE IF startswith(line, <<" ">>)
        THEN IF vals.exc # "none" THEN [r EXCEPT !.exc = vals.exc]
             ELSE IF Len(vals.val) # PlanetArity THEN [r EXCEPT !.exc = "ValueError"]
             ELSE IF r.host = Undefined THEN [r EXCEPT !.exc = "UnboundLocalError"]
             ELSE [r EXCEPT !.targets =
                      Append(@, [host |-> r.host, star_vals |-> r.star_vals,
                                 planet |-> strip(slice(line, 1, name_len)),
                                 planet_vals |-> vals.val])]
        ELSE r

RECURSIVE read_targets(_, _)
read_targets(r, ls) ==
    IF r.exc # "none" \/ ls = <<>> THEN r
    ELSE CHOOSE done \in { read_targets(next, Tail(ls)) :
                           next \in { read_target(r, Head(ls)) } } : TRUE

\* 'if not line.strip().startswith('#')'
is_comment(line) == startswith(strip(line), <<"#">>)

load_targets(ls) ==
    LET keep == [i \in 1 .. Len(ls) |-> ~is_comment(ls[i])]
        r == read_targets([exc |-> "none", host |-> Undefined,
                           star_vals |-> <<>>, targets |-> <<>>],
                          filter(ls, keep))
    IN  [exc |-> r.exc, val |-> r.targets]

MaxRecords == 3

RECURSIVE values(_)
values(n) == IF n = 0 THEN <<>> ELSE <<" ", "1">> \o values(n - 1)

HostLine(n) == <<">", "H", ":">> \o values(n) \o <<"\n">>
PlanetLine(n) == <<" ", "H", " ", "b", ":">> \o values(n) \o <<"\n">>
CommentLine == <<"#", " ", "c", "\n">>

\* lines with one value too few, the right number, and one too many
TargetLines ==
    { HostLine(n) : n \in StarArity - 1 .. StarArity + 1 }
    \cup { PlanetLine(n) : n \in PlanetArity - 1 .. PlanetArity + 1 }
    \cup { CommentLine }

InitTargets ==
    /\ IdleMain /\ IdleLetter /\ IdleCurate /\ IdleTrexo /\ IdleSolve /\ IdleRest
    /\ \E n \in 0 .. MaxRecords : database \in [1 .. n -> TargetLines]
    /\ targets = Pending
    /\ pc = "load_targets"

LoadTargets ==
    /\ pc = "load_targets"
    /\ targets' = load_targets(database)
    /\ pc' = "targets_loaded"
    /\ UNCHANGED <<mainVars, letterVars, curateVars, database, trexoVars, solveVars,
                   restVars>>

NextTargets == LoadTargets

SpecTargets == InitTargets /\ [][NextTargets]_vars

\* the values a row carries and the number its marker asks for
arity(line) == Len(split_ws(From(line, find(line, <<":">>, 0) + 1)))
expected_arity(line) == IF startswith(line, <<">">>) THEN StarArity ELSE PlanetArity
malformed(line) == ~is_comment(line) /\ arity(line) # expected_arity(line)

\* C13: a row whose number of values differs from the arity of its marker is
\* skipped: load_targets does not raise on it and returns the targets of the
\* other rows
C13_MalformedRowSkipped ==
    (pc = "targets_loaded" /\ \E i \in 1 .. Len(database) : malformed(database[i]))
    => /\ targets.exc = "none"
       /\ targets.val =
            load_targets(filter(database,
                [i \in 1 .. Len(database) |-> ~malformed(database[i])])).val

---------------------------------------------------------------------------
(* catalog_utils.get_trexolists_targets: the scan that detects the aliases *)
(* of one object.  A cluster is the list hosts of one turn of the outer    *)
(* loop, kept here as the list of the rows j whose targets[j] it holds     *)

\* 'r[0:7] for r in ra' and 'd[0:6] for d in dec'
TruncRa == 7
TruncDec == 6

truncated_ra(row) == SubSeq(row.ra, 1, IF Len(row.ra) < TruncRa THEN Len(row.ra) ELSE TruncRa)
truncated_dec(row) == SubSeq(row.dec, 1, IF Len(row.dec) < TruncDec THEN Len(row.dec) ELSE TruncDec)

\* 'truncated_ra[j]==ra and truncated_dec[j]==dec'
same_ra(rows, i, j) == truncated_ra(rows[j]) = truncated_ra(rows[i])
same_coords(rows, i, j) ==
    /\ truncated_ra(rows[j]) = truncated_ra(rows[i])
    /\ truncated_dec(rows[j]) = truncated_dec(rows[i])

\* 'for j in range(i,ntargets)': the rows appended to hosts, in order
RECURSIVE scan_hosts(_, _, _, _)
scan_hosts(rows, i, j, taken) ==
    IF j > Len(rows) THEN <<>>
    ELSE IF same_coords(rows, i, j) /\ ~taken[j]
         THEN <<j>> \o scan_hosts(rows, i, j + 1, [taken EXCEPT ![j] = TRUE])
         ELSE scan_hosts(rows, i, j + 1, taken)

\* 'for i in range(ntargets)': the lists hosts of the turns from row i on
RECURSIVE scan_targets(_, _, _)
scan_targets(rows, i, taken) ==
    IF i > Len(rows) THEN <<>>
    ELSE IF taken[i] THEN scan_targets(rows, i + 1, taken)
    ELSE LET now == [taken EXCEPT ![i] = TRUE]
             hosts == <<i>> \o scan_hosts(rows, i, i, now)
         IN  <<hosts>> \o
             scan_targets(rows, i + 1, [j \in 1 .. Len(rows) |-> now[j] \/ j \in Range(hosts)])

MaxObs == 3

\* two right ascensions with the same first 7 characters and a third one;
\* two declinations with the same first 6 characters and a third one
RaValues == { <<"0","1","0","2","0","3","4","5">>, <<"0","1","0","2","0","3","4","6">>,
              <<"0","1","0","2","0","3","5","5">> }
DecValues == { <<"+","1","0","2","0","3","4">>, <<"+","1","0","2","0","3","5">>,
               <<"+","1","0","2","0","4","4">> }
ObsNames == { <<"A">>, <<"B">> }
ObsRows == [Target : ObsNames, ra : RaValues, dec : DecValues]

InitTrexo ==
    /\ IdleMain /\ IdleLetter /\ IdleCurate /\ IdleTargets /\ IdleSolve /\ IdleRest
    /\ \E n \in 1 .. MaxObs : trexolist_data \in [1 .. n -> ObsRows]
    /\ clusters = <<>>
    /\ pc = "get_trexolists_targets"

GetTrexolistsTargets ==
    /\ pc = "get_trexolists_targets"
    /\ clusters' = scan_targets(trexolist_data, 1, [j \in 1 .. Len(trexolist_data) |-> FALSE])
    /\ pc' = "targets_scanned"
    /\ UNCHANGED <<mainVars, letterVars, curateVars, targetsVars, trexolist_data, solveVars,
                   restVars>>

NextTrexo == GetTrexolistsTargets

SpecTrexo == InitTrexo /\ [][NextTrexo]_vars

\* the truncated key of a row
Key(row) == <<truncated_ra(row), truncated_dec(row)>>

ClustersOf(j) == { c \in 1 .. Len(clusters) : \E k \in 1 .. Len(clusters[c]) : clusters[c][k] = j }

\* C15: every row of the observation log is in exactly one cluster, once, and
\* two rows are in the same cluster exactly when the first 7 characters of
\* their right ascensions and the first 6 characters of their declinations
\* are equal
C15_ClustersPartitionByCoords ==
    pc = "targets_scanned" =>
        /\ \A j \in 1 .. Len(trexolist_data) :
              /\ Cardinality(ClustersOf(j)) = 1
              /\ \A c \in ClustersOf(j) :
                    Cardinality({ k \in 1 .. Len(clusters[c]) : clusters[c][k] = j }) = 1
        /\ \A i \in 1 .. Len(trexolist_data), j \in 1 .. Len(trexolist_data) :
              (ClustersOf(i) = ClustersOf(j)) <=> Key(trexolist_data[i]) = Key(trexolist_data[j])

\* rows 1 and 3 differ in name and in coordinates and agree on the truncated
\* coordinates; row 2, between them, has their right ascension and another
\* declination
C15_Witness ==
    /\ pc = "targets_scanned"
    /\ Len(trexolist_data) = 3
    /\ trexolist_data[1].Target # trexolist_data[3].Target
    /\ trexolist_data[1].ra # trexolist_data[3].ra
    /\ trexolist_data[1].dec # trexolist_data[3].dec
    /\ Key(trexolist_data[1]) = Key(trexolist_data[3])
    /\ Key(trexolist_data[1])[1] = Key(trexolist_data[2])[1]
    /\ Key(trexolist_data[1])[2] # Key(trexolist_data[2])[2]
    /\ clusters = << <<1, 3>>, <<2>> >>

---------------------------------------------------------------------------
(* One call of solve_period_sma, solve_rp_rs or solve_a_rs: every argument  *)
(* is None or a number of 0 .. MaxValue                                     *)

Numbers == { None } \cup { <<k>> : k \in 0 .. MaxValue }

InitSolve ==
    /\ IdleMain /\ IdleLetter /\ IdleCurate /\ IdleTargets /\ IdleTrexo /\ IdleRest
    /\ triple \in Numbers \X Numbers \X Numbers
    /\ solved = Pending
    /\ pc \in { "solve_period_sma", "solve_rp_rs", "solve_a_rs" }

SolvePeriodSma ==
    /\ pc = "solve_period_sma"
    /\ solved' = Ok(solve_period_sma(triple[1], triple[2], triple[3]))
    /\ pc' = "period_sma_solved"
    /\ UNCHANGED <<mainVars, letterVars, curateVars, targetsVars, trexoVars, triple,
                   restVars>>

SolveRpRs ==
    /\ pc = "solve_rp_rs"
    /\ solved' = solve_rp_rs(triple[1], triple[2], triple[3])
    /\ pc' = "rp_rs_solved"
    /\ UNCHANGED <<mainVars, letterVars, curateVars, targetsVars, trexoVars, triple,
                   restVars>>

SolveARs ==
    /\ pc = "solve_a_rs"
    /\ solved' = solve_a_rs(triple[1], triple[2], triple[3])
    /\ pc' = "a_rs_solved"
    /\ UNCHANGED <<mainVars, letterVars, curateVars, targetsVars, trexoVars, triple,
                   restVars>>

NextSolve == SolvePeriodSma \/ SolveRpRs \/ SolveARs

SpecSolve == InitSolve /\ [][NextSolve]_vars

Solved == pc \in { "period_sma_solved", "rp_rs_solved", "a_rs_solved" }

\* the members a solver returns: solve_period_sma returns (period, sma)
Returned == IF pc = "period_sma_solved" THEN 1 .. 2 ELSE 1 .. 3

NullMembers == Cardinality({ k \in 1 .. 3 : triple[k] = None })

\* C18: a solver called with two or more null members returns every member
\* as it was, and a solver never returns another value for a member that was
\* non-null.
C18_SolversKeepKnownMembers ==
    Solved =>
        /\ NullMembers >= 2 =>
              /\ solved.exc = "none"
              /\ \A k \in Returned : solved.val[k] = triple[k]
        /\ solved.exc = "none" =>
              \A k \in Returned : triple[k] # None => solved.val[k] = triple[k]

\* solve_rp_rs was called with the planet radius alone and has returned
C18_Witness ==
    /\ pc = "rp_rs_solved"
    /\ triple[1] # None /\ NullMembers = 2
    /\ solved = Ok(triple)

---------------------------------------------------------------------------
(* catalog_utils.select_alias (fetch_catalogs.select_alias is the same)    *)

\* the loops the other way round: the first alias that starts with any name
\* of the list of catalogs
RECURSIVE select_first_alias(_, _, _)
select_first_alias(names, cats, default) ==
    IF names = <<>> THEN default
    ELSE IF \E c \in 1 .. Len(cats) : startswith(Head(names), cats[c])
         THEN Head(names)
    ELSE select_first_alias(Tail(names), cats, default)

\* 'for catalog in catalogs: for alias in aka: if alias.startswith(catalog)'
RECURSIVE select_alias(_, _, _)
select_alias(names, cats, default) ==
    IF cats = <<>> THEN default
    ELSE LET hits == { i \in 1 .. Len(names) : startswith(names[i], Head(cats)) }
         IN  IF hits # {} THEN names[CHOOSE i \in hits : \A j \in hits : i <= j]
             ELSE select_alias(names, Tail(cats), default)

MaxAka == 2
MaxCatalogs == 2

\* 'KO2' starts with two of the prefixes, 'G4' with none
SelectAliases == { <<"K","1">>, <<"K","O","2">>, <<"H","3">>, <<"G","4">> }
SelectCatalogs == { <<"K">>, <<"K","O">>, <<"H">> }
SelectDefaults == { None, <<"D">> }

InitSelect ==
    /\ IdleMain /\ IdleLetter /\ IdleCurate /\ IdleTargets /\ IdleTrexo /\ IdleSolve
    /\ IdleInvert /\ IdleTess /\ IdleSave
    /\ \E n \in 0 .. MaxAka : alias_list \in [1 .. n -> SelectAliases]
    /\ \E n \in 0 .. MaxCatalogs :
          \E c \in [1 .. n -> SelectCatalogs] :
              /\ \A i \in 1 .. n, j \in 1 .. n : c[i] = c[j] => i = j
              /\ catalog_names = c
    /\ default_name \in SelectDefaults
    /\ selected = Pending
    /\ pc = "select_alias"

SelectAlias ==
    /\ pc = "select_alias"
    /\ selected' = Ok(select_alias(alias_list, catalog_names, default_name))
    /\ pc' = "alias_selected"
    /\ UNCHANGED <<mainVars, letterVars, curateVars, targetsVars, trexoVars, solveVars,
                   alias_list, catalog_names, default_name, invertVars, tessVars, saveVars>>

NextSelect == SelectAlias

SpecSelect == InitSelect /\ [][NextSelect]_vars

\* the places in catalogs of the prefixes some alias starts with
Matched ==
    { c \in 1 .. Len(catalog_names) :
        \E i \in 1 .. Len(alias_list) :
            SubSeq(alias_list[i], 1, Len(catalog_names[c])) = catalog_names[c] }

\* C22: select_alias returns the default when no alias starts with a prefix of
\* the list; otherwise it returns the alias that is first in the list of
\* aliases among those that start with the earliest prefix any alias starts
\* with.
C22_EarliestPrefixFirstAlias ==
    pc = "alias_selected" =>
        /\ selected.exc = "none"
        /\ Matched = {} => selected.val = default_name
        /\ Matched # {} =>
              LET c == CHOOSE m \in Matched : \A k \in Matched : m <= k
                  with == { i \in 1 .. Len(alias_list) :
                              SubSeq(alias_list[i], 1, Len(catalog_names[c])) = catalog_names[c] }
              IN  selected.val = alias_list[CHOOSE i \in with : \A j \in with : i <= j]

\* the first alias starts with the second prefix only, the second alias with
\* the first prefix, and the second alias is returned
C22_Witness ==
    /\ pc = "alias_selected"
    /\ Len(alias_list) = 2 /\ Len(catalog_names) = 2
    /\ Matched = { 1, 2 }
    /\ SubSeq(alias_list[1], 1, Len(catalog_names[1])) # catalog_names[1]
    /\ SubSeq(alias_list[1], 1, Len(catalog_names[2])) = catalog_names[2]
    /\ selected = Ok(alias_list[2])
    /\ default_name # None

---------------------------------------------------------------------------
(* catalog_utils.invert_aliases (fetch_catalogs.invert_aliases is the same) *)
(* on a dict of up to MaxKept aliases                                       *)

InitInvert ==
    /\ IdleMain /\ IdleLetter /\ IdleTargets /\ IdleTrexo /\ IdleSolve
    /\ IdleSelect /\ IdleTess /\ IdleSave
    /\ \E n \in 0 .. MaxKept :
       \E akas \in [1 .. n -> CuratedAliases], names \in [1 .. n -> CuratedNames] :
           /\ \A i \in 1 .. n, j \in 1 .. n : akas[i] = akas[j] => i = j
           /\ kept_aliases = [i \in 1 .. n |-> <<akas[i], names[i]>>]
    /\ inverted = <<>>
    /\ pc = "invert_aliases"

InvertAliases ==
    /\ pc = "invert_aliases"
    /\ inverted' = invert_aliases(kept_aliases)
    /\ pc' = "aliases_inverted"
    /\ UNCHANGED <<mainVars, letterVars, curateVars, targetsVars, trexoVars, solveVars,
                   selectVars, tessVars, saveVars>>

NextInvert == InvertAliases

SpecInvert == InitInvert /\ [][NextInvert]_vars

\* the aliases of the input that map to name, in the order of the input
AliasesOf(name) ==
    LET at == filter([i \in 1 .. Len(kept_aliases) |-> i],
                     [i \in 1 .. Len(kept_aliases) |-> kept_aliases[i][2] = name])
    IN  [k \in 1 .. Len(at) |-> kept_aliases[at[k]][1]]

\* the places <<list, place in the list>> where an alias is
PlacesOf(alias) ==
    { p \in (1 .. Len(inverted)) \X (1 .. Len(kept_aliases)) :
        p[2] <= Len(inverted[p[1]][2]) /\ inverted[p[1]][2][p[2]] = alias }

\* C23: invert_aliases has one list for each name of the input, with the
\* aliases that map to the name, each once, in the order of the input; every
\* alias is in exactly one list, and the pairs (alias of a list, name of the
\* list) are the pairs of the input.
C23_InvertGroupsByName ==
    pc = "aliases_inverted" =>
        /\ { inverted[i][1] : i \in 1 .. Len(inverted) }
              = { kept_aliases[i][2] : i \in 1 .. Len(kept_aliases) }
        /\ \A i \in 1 .. Len(inverted), j \in 1 .. Len(inverted) :
              inverted[i][1] = inverted[j][1] => i = j
        /\ \A i \in 1 .. Len(inverted) : inverted[i][2] = AliasesOf(inverted[i][1])
        /\ \A i \in 1 .. Len(kept_aliases) : Cardinality(PlacesOf(kept_aliases[i][1])) = 1
        /\ { <<inverted[p[1]][2][p[2]], inverted[p[1]][1]>> :
               p \in { q \in (1 .. Len(inverted)) \X (1 .. Len(kept_aliases)) :
                          q[2] <= Len(inverted[q[1]][2]) } }
              = { kept_aliases[i] : i \in 1 .. Len(kept_aliases) }

\* the first and the third alias map to one name, the second to another
C23_Witness ==
    /\ pc = "aliases_inverted"
    /\ Len(kept_aliases) = 3
    /\ kept_aliases[1][2] = kept_aliases[3][2]
    /\ kept_aliases[1][2] # kept_aliases[2][2]
    /\ inverted = << <<kept_aliases[1][2], <<kept_aliases[1][1], kept_aliases[3][1]>> >>,
                     <<kept_aliases[2][2], <<kept_aliases[2][1]>> >> >>

---------------------------------------------------------------------------
(* fetch_catalogs.fetch_nea_tess_candidates, from the response on           *)

\* f"TOI-{x}"
toi_name(x) == TOI \o <<"-">> \o x

\* the name as it is
not_renamed(d, x) == x

\* 'if x in nea_aliases: x = nea_aliases[x]'
renamed(d, x) == IF x \in Keys(d) THEN Get(d, x) ELSE x

\* np.sqrt(x) raises TypeError for None
sqrt(x) == IF x = None THEN Raise("TypeError") ELSE Ok(<<"sqrt", x>>)

\* one turn of 'for i, planet in enumerate(tess_planets)': the planet, the
\* host, is_candidate[i] and tess_mag[i]
tess_row(row, table, d) ==
    LET tess_host == renamed(d, toi_name(row.toipfx))
        planet == renamed(d, toi_name(row.toi))
    IN  [planet |-> planet, host |-> tess_host,
         is_candidate |-> planet \notin Range(table.targets),
         tess_mag |-> IF planet \notin Range(table.targets)
                         /\ tess_host \in Range(table.hosts)
                      THEN table.ks_mag[index(table.hosts, tess_host)]
                      ELSE <<0>>]

\* lines 566-627: the dict candidates, or TypeError from np.sqrt
tess_candidates(rows, table, d) ==
    LET n == Len(rows)
        tess == [i \in 1 .. n |-> tess_row(rows[i], table, d)]
        is_candidate == [i \in 1 .. n |-> tess[i].is_candidate]
        column(field) == filter([i \in 1 .. n |-> rows[i][field]], is_candidate)
    IN  IF \E i \in 1 .. n : sqrt(rows[i].pl_trandep).exc # "none"
        THEN Raise("TypeError")
        ELSE Ok([planets |-> filter([i \in 1 .. n |-> tess[i].planet], is_candidate),
                 hosts |-> filter([i \in 1 .. n |-> tess[i].host], is_candidate),
                 ra |-> column("ra"), dec |-> column("dec"),
                 teff |-> column("st_teff"), logg |-> column("st_logg"),
                 tr_dur |-> column("pl_trandurh"),
                 rprs |-> filter([i \in 1 .. n |-> sqrt(rows[i].pl_trandep).val], is_candidate),
                 teq |-> column("pl_eqt"),
                 ks_mag |-> filter([i \in 1 .. n |-> tess[i].tess_mag], is_candidate)])

MaxToi == 2

\* toi and toipfx of the rows of the TOI table
Tois == { <<"1",".","0","1">>, <<"1",".","0","2">>, <<"2",".","0","1">> }

TessRow(toi, k, depth) ==
    [toi |-> toi, toipfx |-> SubSeq(toi, 1, 1), pl_trandep |-> depth,
     ra |-> <<k>>, dec |-> <<k>>, st_teff |-> <<k>>, st_logg |-> <<k>>,
     pl_trandurh |-> <<k>>, pl_eqt |-> <<k>>]

\* the confirmed planets with their hosts: a host with another name than its
\* TOI, and a host known by its TOI
ConfirmedList == << [planet |-> <<"A"," ","b">>, host |-> <<"A">>],
                    [planet |-> toi_name(<<"2"," ","b">>), host |-> toi_name(<<"2">>)] >>

\* the pairs alias, name that nea_aliases.pickle can hold
PickleList == << << toi_name(<<"1",".","0","1">>), <<"A"," ","b">> >>,
                 << toi_name(<<"1">>), <<"A">> >>,
                 << toi_name(<<"2",".","0","1">>), toi_name(<<"2"," ","b">>) >> >>

Choice(list, keep) == filter(list, [i \in 1 .. Len(list) |-> i \in keep])

InitTess ==
    /\ IdleMain /\ IdleLetter /\ IdleCurate /\ IdleTargets /\ IdleTrexo /\ IdleSolve
    /\ IdleSelect /\ IdleInvert /\ IdleSave
    /\ \E n \in 0 .. MaxToi :
       \E tois \in [1 .. n -> Tois], depths \in [1 .. n -> { None, <<4>> }] :
           /\ \A i \in 1 .. n, j \in 1 .. n : tois[i] = tois[j] => i = j
           /\ tess_resp = [i \in 1 .. n |-> TessRow(tois[i], i, depths[i])]
    /\ \E keep \in SUBSET (1 .. Len(ConfirmedList)) :
          \E known \in { Choice(ConfirmedList, keep) } :
              nea_table = [targets |-> [i \in 1 .. Len(known) |-> known[i].planet],
                           hosts |-> [i \in 1 .. Len(known) |-> known[i].host],
                           ks_mag |-> [i \in 1 .. Len(known) |-> <<i>>]]
    /\ \E keep \in SUBSET (1 .. Len(PickleList)) : nea_pickle = Choice(PickleList, keep)
    /\ candidates = Pending
    /\ pc = "fetch_nea_tess_candidates"

FetchNeaTessCandidates ==
    /\ pc = "fetch_nea_tess_candidates"
    /\ candidates' = tess_candidates(tess_resp, nea_table, nea_pickle)
    /\ pc' = "candidates_saved"
    /\ UNCHANGED <<mainVars, letterVars, curateVars, targetsVars, trexoVars, solveVars,
                   selectVars, invertVars, tess_resp, nea_table, nea_pickle, saveVars>>

NextTess == FetchNeaTessCandidates

SpecTess == InitTess /\ [][NextTess]_vars

\* the name of row i of the response after the renaming
NewName(i) ==
    LET old == <<"T","O","I","-">> \o tess_resp[i].toi
        found == { k \in 1 .. Len(nea_pickle) : nea_pickle[k][1] = old }
    IN  IF found = {} THEN old ELSE nea_pickle[CHOOSE k \in found : TRUE][2]

Confirmed(planet) == \E k \in 1 .. Len(nea_table.targets) : nea_table.targets[k] = planet

Saved == pc = "candidates_saved" /\ candidates.exc = "none"

\* C27: the planets that are saved are the renamed planets of the rows of the
\* response whose renamed name is not a confirmed planet, in the order of
\* the response, and every array that is saved is as long as the list of the
\* planets.
C27_CandidatesAreUnconfirmed ==
    Saved =>
        /\ \A k \in 1 .. Len(candidates.val.planets) : ~Confirmed(candidates.val.planets[k])
        /\ candidates.val.planets =
              LET at == filter([i \in 1 .. Len(tess_resp) |-> i],
                               [i \in 1 .. Len(tess_resp) |-> ~Confirmed(NewName(i))])
              IN  [k \in 1 .. Len(at) |-> NewName(at[k])]
        /\ \A key \in DOMAIN candidates.val :
              Len(candidates.val[key]) = Len(candidates.val.planets)

\* of two rows, the first is a confirmed planet under its new name only and
\* is dropped, the second is saved
C27_Witness ==
    /\ Saved
    /\ Len(tess_resp) = 2
    /\ ~Confirmed(<<"T","O","I","-">> \o tess_resp[1].toi)
    /\ Confirmed(NewName(1))
    /\ Len(candidates.val.planets) = 1
    /\ candidates.val.ra = << <<2>> >>

---------------------------------------------------------------------------
(* fetch_catalogs.fetch_nea_confirmed_targets, 'Save as plain text': the    *)
(* lines of nea_data.txt, each a tuple of its marker, its name and the      *)
(* texts of its values                                                      *)

\* f'{x}': 'None' for None
NoneText == <<"N","o","n","e">>
text(x) == IF x = None THEN NoneText ELSE <<"str", x>>

\* f'{as_str(val, fmt)}'
as_str(val, fmt) == IF val = None THEN NoneText ELSE <<"format", fmt, val>>

\* no value is missing only when all three are
missing_all(e) == e.st_teff = None /\ e.st_rad = None /\ e.pl_orbsmax = None

missing_info(e) == e.st_teff = None \/ e.st_rad = None \/ e.pl_orbsmax = None

\* pa.equilibrium_temp is a function of pyratbay: its value is kept as the
\* call
teq_text(e) ==
    IF missing_info(e) THEN NoneText
    ELSE <<"format", ".1f", <<"equilibrium_temp", e.st_teff, e.st_rad, e.pl_orbsmax>> >>

host_line(e) ==
    <<">", e.hostname, text(e.ra), text(e.dec), text(e.sy_kmag),
      as_str(e.st_teff, ".1f"), as_str(e.st_logg, ".3f")>>

planet_line(e) ==
    <<" ", e.pl_name, text(e.pl_trandur), as_str(e.pl_ratror, ".3f"), teq_text(e)>>

\* 'for entry in planets', with host the host of the entry before
RECURSIVE save_entries(_, _)
save_entries(entries, host) ==
    IF entries = <<>> THEN <<>>
    ELSE LET e == Head(entries)
         IN  (IF e.hostname # host THEN <<host_line(e)>> ELSE <<>>)
             \o <<planet_line(e)>> \o save_entries(Tail(entries), e.hostname)

MaxSaved == 2

SavedHosts == { <<"A">>, <<"B">> }
Known == { None, <<1>> }

SavedEntry(k, host, teff, rad, sma) ==
    [hostname |-> host, pl_name |-> host \o <<" ">> \o <<Digits[k + 1]>>,
     ra |-> <<k>>, dec |-> <<k>>, sy_kmag |-> <<k>>, pl_trandur |-> None,
     st_logg |-> <<k>>, pl_ratror |-> None,
     st_teff |-> teff, st_rad |-> rad, pl_orbsmax |-> sma]

InitSave ==
    /\ IdleMain /\ IdleLetter /\ IdleCurate /\ IdleTargets /\ IdleTrexo /\ IdleSolve
    /\ IdleSelect /\ IdleInvert /\ IdleTess
    /\ \E n \in 1 .. MaxSaved :
       \E h \in [1 .. n -> SavedHosts], t \in [1 .. n -> Known],
          r \in [1 .. n -> Known], a \in [1 .. n -> Known] :
           merged = [k \in 1 .. n |-> SavedEntry(k, h[k], t[k], r[k], a[k])]
    /\ nea_text = Pending
    /\ pc = "save_nea_data"

SaveNeaData ==
    /\ pc = "save_nea_data"
    /\ nea_text' = Ok(save_entries(merged, <<>>))
    /\ pc' = "nea_data_saved"
    /\ UNCHANGED <<mainVars, letterVars, curateVars, targetsVars, trexoVars, solveVars,
                   selectVars, invertVars, tessVars, merged>>

NextSave == SaveNeaData

SpecSave == InitSave /\ [][NextSave]_vars

\* the lines of the planets, in the order they were written
PlanetLines ==
    filter(nea_text.val, [i \in 1 .. Len(nea_text.val) |-> nea_text.val[i][1] = " "])

AnyNull(e) == \E field \in { "st_teff", "st_rad", "pl_orbsmax" } : e[field] = None

\* C28: in the line written for a planet the equilibrium temperature is
\* 'None' exactly when st_teff, st_rad or pl_orbsmax is null in the record
\* of the planet, and a value computed from the three exactly when none of
\* them is null.
C28_TeqNoneIffMissing ==
    pc = "nea_data_saved" =>
        /\ Len(PlanetLines) = Len(merged)
        /\ \A k \in 1 .. Len(merged) :
              /\ PlanetLines[k][5] = <<"N","o","n","e">> <=> AnyNull(merged[k])
              /\ ~AnyNull(merged[k]) <=>
                    PlanetLines[k][5] =
                        <<"format", ".1f", <<"equilibrium_temp", merged[k].st_teff,
                                             merged[k].st_rad, merged[k].pl_orbsmax>> >>

\* two planets of one host: the first with the three values, the second
\* without its stellar radius only
C28_Witness ==
    /\ pc = "nea_data_saved"
    /\ Len(merged) = 2 /\ Len(nea_text.val) = 3
    /\ ~AnyNull(merged[1])
    /\ merged[2].st_rad = None /\ merged[2].st_teff # None /\ merged[2].pl_orbsmax # None
    /\ nea_text.val[2][5] # <<"N","o","n","e">>
    /\ nea_text.val[3][5] = <<"N","o","n","e">>

Init ==
    \/ InitNormalize \/ InitAliases \/ InitCatalog \/ InitMerge \/ InitComplete
    \/ InitLetter \/ InitCurate \/ InitTargets \/ InitTrexo \/ InitSolve
    \/ InitSelect \/ InitInvert \/ InitGetLetter \/ InitTess \/ InitSave

Next ==
    \/ NextNormalize \/ NextAliases \/ NextCatalog \/ NextMerge \/ NextComplete
    \/ NextLetter \/ NextCurate \/ NextTargets \/ NextTrexo \/ NextSolve
    \/ NextSelect \/ NextInvert \/ NextGetLetter \/ NextTess \/ NextSave

Spec == Init /\ [][Next]_vars

===========================================================================
